---- MODULE Spec2Model ----
(***************************************************************************)
(* State-machine model of chainguard/generate_php_builtins.py:             *)
(* PHPStubsExtractor (pattern matching, name filter, corpus walk) and      *)
(* generate_builtins (acquisition, report, output, cleanup).               *)
(*                                                                         *)
(* Text is modelled one declaration line at a time.  A line is a record    *)
(* [mods, kw, name, tail]: the words before the keyword, the keyword, the  *)
(* token that follows it (a sequence of one-character strings) and the     *)
(* first non-blank text after that token.  Paths are sequences of          *)
(* segments, as pathlib's Path.parts.                                      *)
(***************************************************************************)
EXTENDS Integers, Sequences, FiniteSets, TLC

\* ------------------------------------------------------------------------
\* Bounds of the model
\* ------------------------------------------------------------------------

\* largest number of files a corpus holds
MaxFiles == 3

\* ------------------------------------------------------------------------
\* Characters and names
\* ------------------------------------------------------------------------

UpperSeq ==
  << "A","B","C","D","E","F","G","H","I","J","K","L","M",
     "N","O","P","Q","R","S","T","U","V","W","X","Y","Z" >>

LowerSeq ==
  << "a","b","c","d","e","f","g","h","i","j","k","l","m",
     "n","o","p","q","r","s","t","u","v","w","x","y","z" >>

DigitSeq == << "0","1","2","3","4","5","6","7","8","9" >>

Range(s) == { s[i] : i \in DOMAIN s }

Upper == Range(UpperSeq)
Lower == Range(LowerSeq)
Digit == Range(DigitSeq)

IndexOf(s, c) == CHOOSE i \in DOMAIN s : s[i] = c

\* code point of a character, as Python's ord()
Ord(c) ==
  IF c \in Upper THEN 64 + IndexOf(UpperSeq, c)
  ELSE IF c \in Lower THEN 96 + IndexOf(LowerSeq, c)
  ELSE IF c \in Digit THEN 47 + IndexOf(DigitSeq, c)
  ELSE IF c = "_" THEN 95
  ELSE IF c = "-" THEN 45
  ELSE 36

\* str.lower() on one character and on a name
LowerChar(c) == IF c \in Upper THEN LowerSeq[IndexOf(UpperSeq, c)] ELSE c

lower(name) == [ i \in DOMAIN name |-> LowerChar(name[i]) ]

\* character classes of the capture groups
IdentStart == Upper \cup Lower \cup {"_"}
IdentChar  == Upper \cup Lower \cup Digit \cup {"_"}
ConstStart == Upper \cup {"_"}
ConstChar  == Upper \cup Digit \cup {"_"}

\* the whole token has the shape  first rest*
HasShape(tok, first, rest) ==
  /\ Len(tok) >= 1
  /\ tok[1] \in first
  /\ \A i \in 2..Len(tok) : tok[i] \in rest

\* the longest prefix of tok of the shape  first rest*  (<< >> if none)
ShapePrefix(tok, first, rest) ==
  IF Len(tok) = 0 \/ tok[1] \notin first THEN << >>
  ELSE LET ends == { n \in 1..Len(tok) : \A i \in 2..n : tok[i] \in rest }
           n    == CHOOSE m \in ends : \A k \in ends : k <= m
       IN  SubSeq(tok, 1, n)

\* ------------------------------------------------------------------------
\* Name filter
\* ------------------------------------------------------------------------

\* the reserved words of _is_valid_function_name
keywords ==
  { <<"i","f">>, <<"e","l","s","e">>,
    <<"e","l","s","e","i","f">>, <<"w","h","i","l","e">>,
    <<"d","o">>, <<"f","o","r">>,
    <<"f","o","r","e","a","c","h">>, <<"s","w","i","t","c","h">>,
    <<"c","a","s","e">>, <<"d","e","f","a","u","l","t">>,
    <<"b","r","e","a","k">>, <<"c","o","n","t","i","n","u","e">>,
    <<"r","e","t","u","r","n">>, <<"t","r","y">>,
    <<"c","a","t","c","h">>, <<"f","i","n","a","l","l","y">>,
    <<"t","h","r","o","w">>, <<"c","l","a","s","s">>,
    <<"i","n","t","e","r","f","a","c","e">>, <<"t","r","a","i","t">>,
    <<"e","x","t","e","n","d","s">>, <<"i","m","p","l","e","m","e","n","t","s">>,
    <<"p","u","b","l","i","c">>, <<"p","r","o","t","e","c","t","e","d">>,
    <<"p","r","i","v","a","t","e">>, <<"s","t","a","t","i","c">>,
    <<"a","b","s","t","r","a","c","t">>, <<"f","i","n","a","l">>,
    <<"c","o","n","s","t">>, <<"f","u","n","c","t","i","o","n">>,
    <<"n","e","w">>, <<"c","l","o","n","e">>,
    <<"i","n","s","t","a","n","c","e","o","f">>, <<"u","s","e">>,
    <<"n","a","m","e","s","p","a","c","e">>, <<"e","c","h","o">>,
    <<"p","r","i","n","t">>, <<"d","i","e">>,
    <<"e","x","i","t">>, <<"i","n","c","l","u","d","e">>,
    <<"i","n","c","l","u","d","e","_","o","n","c","e">>, <<"r","e","q","u","i","r","e">>,
    <<"r","e","q","u","i","r","e","_","o","n","c","e">>, <<"g","l","o","b","a","l">>,
    <<"v","a","r">>, <<"l","i","s","t">>,
    <<"a","r","r","a","y">>, <<"c","a","l","l","a","b","l","e">>,
    <<"s","e","l","f">>, <<"p","a","r","e","n","t">>,
    <<"t","r","u","e">>, <<"f","a","l","s","e">>,
    <<"n","u","l","l">>, <<"a","n","d">>,
    <<"o","r">>, <<"x","o","r">>,
    <<"a","s">>, <<"y","i","e","l","d">>,
    <<"m","a","t","c","h">>, <<"f","n">>,
    <<"r","e","a","d","o","n","l","y">>, <<"e","n","u","m">> }

MinNameLen == 2

is_valid_function_name_nolower(name) ==
  name \notin keywords /\ Len(name) >= MinNameLen

is_valid_function_name(name) ==
  lower(name) \notin keywords /\ Len(name) >= MinNameLen

\* ------------------------------------------------------------------------
\* Pattern registry: each operator is the set of names (0 or 1) that the
\* patterns of one category capture on one line
\* ------------------------------------------------------------------------

\* tails that begin with "(" ; "():" is a parameter list followed by ":"
OpenParenTails == { "(", "():" }

\* r'^\s*function\s+(ident)\s*\('  and  r'^\s*function\s+(ident)\s*\([^)]*\)\s*:'
FUNCTION_PATTERNS(line) ==
  LET p1 == /\ line.mods = << >>
            /\ line.kw = "function"
            /\ HasShape(line.name, IdentStart, IdentChar)
            /\ line.tail \in OpenParenTails
      p2 == /\ line.mods = << >>
            /\ line.kw = "function"
            /\ HasShape(line.name, IdentStart, IdentChar)
            /\ line.tail = "():"
  IN  (IF p1 THEN {line.name} ELSE {}) \cup (IF p2 THEN {line.name} ELSE {})

\* class / interface / trait followed by [A-Z][a-zA-Z0-9_]* ; nothing is
\* required after the capture, so the capture is the longest such prefix
CLASS_PATTERNS(line) ==
  LET cap == ShapePrefix(line.name, Upper, IdentChar)
      p1  == line.kw = "class" /\ line.mods \in { << >>, <<"abstract">> }
      p2  == line.kw = "interface" /\ line.mods = << >>
      p3  == line.kw = "trait" /\ line.mods = << >>
  IN  IF (p1 \/ p2 \/ p3) /\ cap # << >> THEN {cap} ELSE {}

\* (public|protected|private)? (static)? function ident (
MethodMods ==
  { << >>, <<"static">> } \cup
  { <<v>> : v \in {"public", "protected", "private"} } \cup
  { <<v, "static">> : v \in {"public", "protected", "private"} }

METHOD_PATTERNS(line) ==
  IF /\ line.mods \in MethodMods
     /\ line.kw = "function"
     /\ HasShape(line.name, IdentStart, IdentChar)
     /\ line.tail \in OpenParenTails
  THEN {line.name} ELSE {}

\* define('NAME'   and   const NAME =
CONSTANT_PATTERNS(line) ==
  LET p1 == /\ line.mods = << >>
            /\ line.kw = "define"
            /\ HasShape(line.name, ConstStart, ConstChar)
            /\ line.tail = "'"
      p2 == /\ line.mods = << >>
            /\ line.kw = "const"
            /\ HasShape(line.name, ConstStart, ConstChar)
            /\ line.tail = "="
  IN  IF p1 \/ p2 THEN {line.name} ELSE {}

\* pattern.finditer(content) over the patterns of one category
FunctionMatches(content) ==
  UNION { FUNCTION_PATTERNS(content[i]) : i \in DOMAIN content }

ClassMatches(content) ==
  UNION { CLASS_PATTERNS(content[i]) : i \in DOMAIN content }

MethodMatches(content) ==
  UNION { METHOD_PATTERNS(content[i]) : i \in DOMAIN content }

ConstantMatches(content) ==
  UNION { CONSTANT_PATTERNS(content[i]) : i \in DOMAIN content }

\* ------------------------------------------------------------------------
\* File extractor
\* ------------------------------------------------------------------------

NoSymbols == [ functions |-> {}, classes |-> {}, methods |-> {}, constants |-> {} ]

\* the names one readable file contributes to each category
ExtractContent(content) ==
  [ functions |-> { n \in FunctionMatches(content) : is_valid_function_name(n) },
    classes   |-> ClassMatches(content),
    methods   |-> { n \in MethodMatches(content) : is_valid_function_name(n) },
    constants |-> ConstantMatches(content) ]

Merge(agg, found) ==
  [ functions |-> agg.functions \cup found.functions,
    classes   |-> agg.classes   \cup found.classes,
    methods   |-> agg.methods   \cup found.methods,
    constants |-> agg.constants \cup found.constants ]

extract_from_file_raises(readable, content, agg) ==
  IF ~readable
  THEN [ raised |-> TRUE, agg |-> agg ]
  ELSE [ raised |-> FALSE, agg |-> Merge(agg, ExtractContent(content)) ]

extract_from_file_overwrite(readable, content, agg) ==
  IF ~readable
  THEN [ raised |-> FALSE, agg |-> agg ]
  ELSE [ raised |-> FALSE, agg |-> ExtractContent(content) ]

\* _extract_from_file: a read error is caught, printed and the method returns;
\* otherwise every capture is added to the set of its category
extract_from_file(readable, content, agg) ==
  IF ~readable
  THEN [ raised |-> FALSE, agg |-> agg ]
  ELSE [ raised |-> FALSE, agg |-> Merge(agg, ExtractContent(content)) ]

\* ------------------------------------------------------------------------
\* sorted(): ascending by code point, shorter prefix first
\* ------------------------------------------------------------------------

NameLess(a, b) ==
  \E i \in 1..(Len(a) + 1) :
    /\ i <= Len(b)
    /\ \A j \in 1..(i - 1) : a[j] = b[j]
    /\ (i = Len(a) + 1 \/ Ord(a[i]) < Ord(b[i]))

RECURSIVE sorted(_)
sorted(S) ==
  IF S = {} THEN << >>
  ELSE LET m == CHOOSE x \in S : \A y \in S \ {x} : NameLess(x, y)
       IN  <<m>> \o sorted(S \ {m})

\* ------------------------------------------------------------------------
\* Paths and the file system
\* ------------------------------------------------------------------------

IsPrefix(p, q) == Len(p) <= Len(q) /\ SubSeq(q, 1, Len(p)) = p

Parent(p) == SubSeq(p, 1, Len(p) - 1)

SKIP_DIRS == { ".git", ".github", "tests", "meta", ".idea" }

INCLUDE_EXTENSIONS == {}

\* "no corpus path supplied" (stubs_path is None)
NoPath == << >>

TMP == << "/", "tmp" >>

\* the directory tempfile.mkdtemp(prefix='phpstorm-stubs-') creates
SCRATCH == TMP \o << "phpstorm-stubs-k3x" >>

\* entries of other programs in the temporary directory
SIB_LOCK == TMP \o << "session.lock" >>
SIB_PRIV == TMP \o << "systemd-private" >>
Siblings == { SIB_LOCK, SIB_PRIV }

\* corpus directories a caller may name
ROOT_PLAIN   == << "/", "srv", "stubs" >>
ROOT_TESTS   == << "/", "srv", "tests", "stubs" >>
ROOT_MISSING == << "/", "srv", "gone" >>
ExistingRoots == { ROOT_PLAIN, ROOT_TESTS }
StubsArgs == { NoPath, ROOT_PLAIN, ROOT_TESTS, ROOT_MISSING }

\* ------------------------------------------------------------------------
\* The pool of stub files a corpus is drawn from
\* ------------------------------------------------------------------------

Line(m, k, n, t) == [ mods |-> m, kw |-> k, name |-> n, tail |-> t ]

n_foo  == << "f","o","o" >>
n_bar  == << "b","a","r" >>
n_if   == << "i","f" >>
n_IF   == << "I","F" >>
n_If   == << "I","f" >>
n_x    == << "x" >>
n_A    == << "A" >>
n_Bar  == << "B","a","r" >>
n_Barx == << "B","a","r","-","x" >>
n_Hid  == << "H","i","d" >>
n_hid  == << "h","i","d" >>
n_doc  == << "d","o","c" >>
n_MAX  == << "M","A","X" >>
n_OR   == << "O","R" >>
n_low  == << "l","o","w" >>
n_zedx == << "z","e","d","-","1" >>
n_Fin  == << "F","i","n" >>
n_E2   == << "E","_","2" >>

Pool ==
  { [ rel |-> << "standard", "a.php" >>, suffix |-> ".php",
      lines |-> << Line(<< >>, "function", n_foo, "("),
                   Line(<< >>, "function", n_if, "("),
                   Line(<< >>, "class", n_Bar, "{"),
                   Line(<< >>, "const", n_MAX, "=") >> ],
    [ rel |-> << "Core", "b.php" >>, suffix |-> ".php",
      lines |-> << Line(<< >>, "function", n_foo, "():"),
                   Line(<<"public">>, "function", n_bar, "("),
                   Line(<< >>, "function", n_x, "("),
                   Line(<< >>, "interface", n_A, "{"),
                   Line(<< >>, "define", n_OR, "'") >> ],
    [ rel |-> << "tests", "t.php" >>, suffix |-> ".php",
      lines |-> << Line(<< >>, "function", n_hid, "("),
                   Line(<< >>, "class", n_Hid, "{") >> ],
    [ rel |-> << "standard", "notes.md" >>, suffix |-> ".md",
      lines |-> << Line(<< >>, "function", n_doc, "(") >> ],
    [ rel |-> << "date", "c.php" >>, suffix |-> ".php",
      lines |-> << Line(<<"public", "static">>, "function", n_IF, "("),
                   Line(<<"abstract">>, "class", n_If, "{"),
                   Line(<<"final">>, "class", n_Fin, "{"),
                   Line(<< >>, "trait", n_Barx, "{"),
                   Line(<< >>, "const", n_low, "="),
                   Line(<< >>, "const", n_E2, "="),
                   Line(<< >>, "function", n_zedx, "(") >> ],
    [ rel |-> << "date", "sub", "d.php" >>, suffix |-> ".php",
      lines |-> << Line(<< >>, "function", n_bar, "("),
                   Line(<< >>, "function", n_foo, "("),
                   Line(<<"private">>, "function", n_Bar, "(") >> ] }

Corpora == { c \in SUBSET Pool : Cardinality(c) <= MaxFiles }

\* every directory and file of a tree that holds the files of corpus at root
Tree(root, corpus) ==
  { root } \cup UNION { { root \o SubSeq(f.rel, 1, k) : k \in 1..Len(f.rel) } : f \in corpus }

Ancestors(p) == { SubSeq(p, 1, k) : k \in 1..Len(p) }

\* the file system before the run
InitFs(arg, corpus) ==
  { <<"/">>, TMP, <<"/", "srv">> } \cup Siblings \cup
  (IF arg \in ExistingRoots THEN Ancestors(arg) \cup Tree(arg, corpus) ELSE {})

\* pathlib: root.rglob('*.php'); a root that is not a directory yields nothing
rglob_php(files, root, corpus) ==
  IF root \notin files THEN {}
  ELSE { root \o f.rel : f \in { g \in corpus : g.suffix = ".php" /\ (root \o g.rel) \in files } }

FileAt(p, root) == CHOOSE f \in Pool : root \o f.rel = p

\* any(skip in php_file.parts for skip in SKIP_DIRS), then the allow-list
ShouldSkip(php_file) ==
  \/ \E skip \in SKIP_DIRS : skip \in Range(php_file)
  \/ /\ INCLUDE_EXTENSIONS # {}
     /\ Parent(php_file)[Len(php_file) - 1] \notin INCLUDE_EXTENSIONS

\* shutil.rmtree(p): the entries of p are removed in directory order; the
\* first entry that cannot be removed raises and the rest stays; at the end
\* p itself is removed.  undel are the paths this process may not remove.
rmtree(files, undel, p) ==
  LET Sub(q)    == { r \in files : IsPrefix(q, r) }
      children  == { q \in files : Len(q) = Len(p) + 1 /\ IsPrefix(p, q) }
      blocked   == { q \in children : Sub(q) \cap undel # {} }
      removable == children \ blocked
  IN  IF blocked = {}
      THEN IF p \in undel
           THEN { [ fs |-> (files \ Sub(p)) \cup {p}, raised |-> TRUE ] }
           ELSE { [ fs |-> files \ Sub(p), raised |-> FALSE ] }
      ELSE { [ fs |-> files \ UNION { Sub(q) : q \in D }, raised |-> TRUE ] :
             D \in SUBSET removable }

finally_unguarded(files, undel, cleanup, path) ==
  IF path \in files
  THEN rmtree(files, undel, Parent(path))
  ELSE { [ fs |-> files, raised |-> FALSE ] }

\* the finally block of generate_builtins
finally(files, undel, cleanup, path) ==
  IF cleanup /\ path \in files
  THEN rmtree(files, undel, Parent(path))
  ELSE { [ fs |-> files, raised |-> FALSE ] }

\* ------------------------------------------------------------------------
\* Report builder
\* ------------------------------------------------------------------------

SymbolLists(agg) ==
  [ functions |-> sorted(agg.functions),
    classes   |-> sorted(agg.classes),
    methods   |-> sorted(agg.methods),
    constants |-> sorted(agg.constants) ]

BuildStats_with_constants(syms) ==
  [ functions    |-> Len(syms.functions),
    classes      |-> Len(syms.classes),
    methods      |-> Len(syms.methods),
    constants    |-> Len(syms.constants),
    total_unique |-> Cardinality(Range(syms.functions) \cup Range(syms.classes)
                                 \cup Range(syms.methods) \cup Range(syms.constants)) ]

\* the 'stats' entry of the output
BuildStats(syms) ==
  [ functions    |-> Len(syms.functions),
    classes      |-> Len(syms.classes),
    methods      |-> Len(syms.methods),
    constants    |-> Len(syms.constants),
    total_unique |-> Cardinality(Range(syms.functions) \cup Range(syms.classes)
                                 \cup Range(syms.methods)) ]

\* the output document; generated_at is the clock and is left out
BuildOutput(syms) ==
  [ meta    |-> [ source |-> "https://github.com/JetBrains/phpstorm-stubs.git",
                  branch |-> "master", version |-> "1.0", license |-> "Apache-2.0" ],
    stats   |-> BuildStats(syms),
    symbols |-> syms ]

NoOutput == [ meta |-> [ source |-> "", branch |-> "", version |-> "", license |-> "" ],
              stats |-> BuildStats(SymbolLists(NoSymbols)),
              symbols |-> SymbolLists(NoSymbols) ]

\* ------------------------------------------------------------------------
\* State
\* ------------------------------------------------------------------------

VARIABLES
  stubsArg,        \* the stubs_path argument of generate_builtins (NoPath = None)
  repo,            \* the stub files of the corpus (caller's directory or remote tree)
  unreadable,      \* files of the corpus whose read_text raises
  undeletable,     \* paths this process may not remove
  fs,              \* paths that exist
  pc,              \* position of the run
  stubs_path,      \* local stubs_path after acquisition
  cleanup_needed,
  php_files,       \* entries of php_files not yet visited by the loop
  scanned,         \* files handed to _extract_from_file
  aggregate,       \* extractor.functions / classes / methods / constants
  symbols,         \* return value of extract_all
  output,          \* the output document
  written,         \* whether the output file has been written
  failCause        \* what raised out of generate_builtins ("none" if nothing)

vars == << stubsArg, repo, unreadable, undeletable, fs, pc, stubs_path,
           cleanup_needed, php_files, scanned, aggregate, symbols, output,
           written, failCause >>

params == << stubsArg, repo, unreadable, undeletable >>

UndeletableChoices == { {}, {SIB_PRIV}, {TMP}, {SIB_PRIV, TMP} }

Init ==
  /\ stubsArg \in StubsArgs
  /\ repo \in Corpora
  /\ unreadable \in SUBSET repo
  /\ undeletable \in UndeletableChoices
  /\ fs = InitFs(stubsArg, repo)
  /\ pc = "idle"
  /\ stubs_path = NoPath
  /\ cleanup_needed = FALSE
  /\ php_files = {}
  /\ scanned = {}
  /\ aggregate = NoSymbols
  /\ symbols = SymbolLists(NoSymbols)
  /\ output = NoOutput
  /\ written = FALSE
  /\ failCause = "none"

InTry == { "extract", "walking", "report", "mkdir", "write" }

\* an exception leaves the try block: the finally block runs, then the
\* exception of the finally block, or else the original one, propagates
RaiseInTry(cause) ==
  \E r \in finally(fs, undeletable, cleanup_needed, stubs_path) :
    /\ fs' = r.fs
    /\ pc' = "failed"
    /\ failCause' = IF r.raised THEN "rmtree" ELSE cause

\* ------------------------------------------------------------------------
\* Actions
\* ------------------------------------------------------------------------

\* generate_builtins, lines 193-198, with a corpus path: it is used as given
AcquireGiven ==
  /\ pc = "idle"
  /\ stubsArg # NoPath
  /\ stubs_path' = stubsArg
  /\ pc' = "extract"
  /\ UNCHANGED << params, fs, cleanup_needed, php_files, scanned, aggregate,
                  symbols, output, written, failCause >>

\* generate_builtins, lines 195-198, without a corpus path: mkdtemp creates
\* the scratch directory, clone_stubs fills it; cleanup_needed is set after
\* clone_stubs returned.  A failing git clone leaves the directory it was
\* given in place and raises before the try block is entered.
AcquireClone(cloneOk) ==
  /\ pc = "idle"
  /\ stubsArg = NoPath
  /\ IF cloneOk
     THEN /\ fs' = fs \cup Tree(SCRATCH, repo)
          /\ stubs_path' = SCRATCH
          /\ cleanup_needed' = TRUE
          /\ pc' = "extract"
          /\ UNCHANGED failCause
     ELSE /\ fs' = fs \cup {SCRATCH}
          /\ pc' = "failed"
          /\ failCause' = "clone"
          /\ UNCHANGED << stubs_path, cleanup_needed >>
  /\ UNCHANGED << params, php_files, scanned, aggregate, symbols, output, written >>

\* extract_all, line 91: list the .php files below stubs_path
ListFiles ==
  /\ pc = "extract"
  /\ php_files' = rglob_php(fs, stubs_path, repo)
  /\ pc' = "walking"
  /\ UNCHANGED << params, fs, stubs_path, cleanup_needed, scanned, aggregate,
                  symbols, output, written, failCause >>

\* extract_all, lines 95-106: one iteration of the loop, in any order
ProcessFile(php_file) ==
  /\ pc = "walking"
  /\ php_file \in php_files
  /\ php_files' = php_files \ {php_file}
  /\ IF ShouldSkip(php_file)
     THEN UNCHANGED << fs, pc, scanned, aggregate, failCause >>
     ELSE LET f == FileAt(php_file, stubs_path)
              r == extract_from_file(f \notin unreadable, f.lines, aggregate)
          IN  /\ scanned' = scanned \cup {php_file}
              /\ aggregate' = r.agg
              /\ IF r.raised
                 THEN RaiseInTry("file")
                 ELSE UNCHANGED << fs, pc, failCause >>
  /\ UNCHANGED << params, stubs_path, cleanup_needed, symbols, output, written >>

\* extract_all, lines 112-117: the loop is over, the sorted lists are returned
FinishWalk ==
  /\ pc = "walking"
  /\ php_files = {}
  /\ symbols' = SymbolLists(aggregate)
  /\ pc' = "report"
  /\ UNCHANGED << params, fs, stubs_path, cleanup_needed, php_files, scanned,
                  aggregate, output, written, failCause >>

\* generate_builtins, lines 206-228
BuildReport ==
  /\ pc = "report"
  /\ output' = BuildOutput(symbols)
  /\ pc' = "mkdir"
  /\ UNCHANGED << params, fs, stubs_path, cleanup_needed, php_files, scanned,
                  aggregate, symbols, written, failCause >>

\* generate_builtins, line 231: output_path.parent.mkdir may raise OSError
MakeOutputDir(ok) ==
  /\ pc = "mkdir"
  /\ IF ok
     THEN /\ pc' = "write"
          /\ UNCHANGED << fs, failCause >>
     ELSE RaiseInTry("mkdir")
  /\ UNCHANGED << params, stubs_path, cleanup_needed, php_files, scanned,
                  aggregate, symbols, output, written >>

\* generate_builtins, lines 232-247: the file is written (or open/dump
\* raises), the function returns through the finally block
WriteOutput(ok) ==
  /\ pc = "write"
  /\ IF ok
     THEN /\ written' = TRUE
          /\ \E r \in finally(fs, undeletable, cleanup_needed, stubs_path) :
               /\ fs' = r.fs
               /\ pc' = IF r.raised THEN "failed" ELSE "done"
               /\ failCause' = IF r.raised THEN "rmtree" ELSE "none"
     ELSE /\ RaiseInTry("write")
          /\ UNCHANGED written
  /\ UNCHANGED << params, stubs_path, cleanup_needed, php_files, scanned,
                  aggregate, symbols, output >>

\* the run is interrupted (KeyboardInterrupt) inside the try block
Interrupt ==
  /\ pc \in InTry
  /\ RaiseInTry("interrupt")
  /\ UNCHANGED << params, stubs_path, cleanup_needed, php_files, scanned,
                  aggregate, symbols, output, written >>

Next ==
  \/ AcquireGiven
  \/ \E cloneOk \in BOOLEAN : AcquireClone(cloneOk)
  \/ ListFiles
  \/ \E php_file \in php_files : ProcessFile(php_file)
  \/ FinishWalk
  \/ BuildReport
  \/ \E ok \in BOOLEAN : MakeOutputDir(ok)
  \/ \E ok \in BOOLEAN : WriteOutput(ok)
  \/ Interrupt

Spec == Init /\ [][Next]_vars

\* ------------------------------------------------------------------------
\* Definitions the properties are stated with
\* ------------------------------------------------------------------------

Ended == pc \in { "done", "failed" }

WalkFinished == pc \in { "report", "mkdir", "write" }

\* the Name Filter as specified: lowercase form not reserved, length >= 2
PassesNameFilter(name) == lower(name) \notin keywords /\ Len(name) >= 2

AllNames(agg) == agg.functions \cup agg.classes \cup agg.methods \cup agg.constants

\* union, over a set of files, of what each file's content declares
UnionOver(F) ==
  [ functions |-> UNION { ExtractContent(f.lines).functions : f \in F },
    classes   |-> UNION { ExtractContent(f.lines).classes   : f \in F },
    methods   |-> UNION { ExtractContent(f.lines).methods   : f \in F },
    constants |-> UNION { ExtractContent(f.lines).constants : f \in F } ]

\* the files below the corpus root that the walk hands to the extractor
WalkedFiles == { FileAt(p, stubs_path) : p \in scanned }

\* the .php files lying below stubs_path
ListedFiles == { FileAt(p, stubs_path) : p \in rglob_php(fs, stubs_path, repo) }

\* ------------------------------------------------------------------------
\* C1: when no corpus path is supplied and mkdtemp + clone_stubs succeeded,
\* the scratch directory does not exist once generate_builtins has returned
\* or raised, whatever later stage failed.
\* ------------------------------------------------------------------------
C1_ScratchRemovedAfterRun ==
  (Ended /\ stubsArg = NoPath /\ cleanup_needed) => SCRATCH \notin fs

\* ------------------------------------------------------------------------
\* C2: a run that fails while acquiring (mkdtemp done, clone_stubs raised)
\* ends with the scratch directory deleted.
\* ------------------------------------------------------------------------
C2_ScratchRemovedAfterFailedClone ==
  (pc = "failed" /\ failCause = "clone") => SCRATCH \notin fs

C4_AcquisitionOwnership ==
  pc \in InTry =>
    IF stubsArg # NoPath /\ stubsArg \in InitFs(stubsArg, repo)
    THEN stubs_path = stubsArg /\ ~cleanup_needed
    ELSE stubs_path = SCRATCH /\ cleanup_needed /\ SCRATCH \in fs

C6_CountConsistency ==
  /\ output.stats.functions = Len(output.symbols.functions)
  /\ output.stats.classes   = Len(output.symbols.classes)
  /\ output.stats.methods   = Len(output.symbols.methods)
  /\ output.stats.constants = Len(output.symbols.constants)
  /\ output.stats.total_unique =
       Cardinality(Range(output.symbols.functions)
                   \cup Range(output.symbols.classes)
                   \cup Range(output.symbols.methods))

C6_Witness ==
  /\ pc = "done"
  /\ written
  /\ output.stats.constants >= 1
  /\ output.stats.classes >= 1
  /\ output.stats.total_unique >= 3
  /\ output.stats.total_unique <
       output.stats.functions + output.stats.classes + output.stats.methods

\* ------------------------------------------------------------------------
\* C7 (as claimed): in every reachable state every name in each of the four
\* sets passes the Name Filter.
\* ------------------------------------------------------------------------
C7_AllSetsPassNameFilter ==
  \A n \in AllNames(aggregate) : PassesNameFilter(n)

\* ------------------------------------------------------------------------
\* C7 (amended): in every reachable state every name in the functions and
\* methods sets passes the Name Filter.
\* ------------------------------------------------------------------------
C7_FunctionsAndMethodsPassNameFilter ==
  \A n \in aggregate.functions \cup aggregate.methods : PassesNameFilter(n)

C7_Witness ==
  /\ aggregate.methods # {}
  /\ \E f \in WalkedFiles \ unreadable :
       \E i \in DOMAIN f.lines :
         /\ f.lines[i].kw = "function"
         /\ f.lines[i].tail = "("
         /\ ~PassesNameFilter(f.lines[i].name)
         /\ Len(f.lines[i].name) >= 2

\* ------------------------------------------------------------------------
\* C8: whatever the order in which the files are traversed, once the walk
\* is over the four sets are the union of what each walked readable file
\* declares, and the symbols and stats of the report are those of that
\* union.
\* ------------------------------------------------------------------------
C8_OrderIndependence ==
  LET expected == UnionOver({ f \in ListedFiles : ~ShouldSkip(stubs_path \o f.rel) }
                            \ unreadable)
  IN  /\ WalkFinished =>
           aggregate = expected /\ symbols = SymbolLists(expected)
      /\ pc \in { "mkdir", "write" } =>
           /\ output.symbols = SymbolLists(expected)
           /\ output.stats.functions = Cardinality(expected.functions)
           /\ output.stats.classes = Cardinality(expected.classes)
           /\ output.stats.methods = Cardinality(expected.methods)
           /\ output.stats.constants = Cardinality(expected.constants)

C8_Witness ==
  /\ pc = "write"
  /\ Cardinality(scanned) >= 3
  /\ \E f, g \in WalkedFiles \ unreadable :
       /\ f # g
       /\ ExtractContent(f.lines).functions \cap ExtractContent(g.lines).functions # {}
       /\ ExtractContent(f.lines).methods # ExtractContent(g.lines).methods

\* ------------------------------------------------------------------------
\* C9: cleanup of a run that acquired its own corpus removes the scratch
\* directory only: the temporary directory that holds it and the other
\* entries of that directory still exist when the run has ended.
\* ------------------------------------------------------------------------
C9_CleanupRemovesOnlyScratch ==
  (Ended /\ cleanup_needed) => (TMP \in fs /\ Siblings \subseteq fs)

\* ------------------------------------------------------------------------
\* C10: with the allow-list empty, the files handed to _extract_from_file
\* are exactly the .php files below the root whose path below the root has
\* no segment in SKIP_DIRS, wherever the root itself lies.
\* ------------------------------------------------------------------------
C10_ScanDependsOnRelativePath ==
  WalkFinished =>
    WalkedFiles = { f \in ListedFiles : \A seg \in Range(f.rel) : seg \notin SKIP_DIRS }
====
